---- MODULE Spec2Model ----
(***************************************************************************)
(* A model of emacs/qdb.py: the qdb command-line client.  QdbRepl is the   *)
(* foreground command loop (a cmd.Cmd) that encodes debugger commands as   *)
(* JSON text frames and writes them to a websocket; ServerPrinter is the   *)
(* background process that reads JSON event frames from the same socket    *)
(* and renders them to a trace file.                                       *)
(*                                                                         *)
(* Python strings are sequences of one-character strings, so that strip,   *)
(* split, the cmd.Cmd line parser and the JSON text are computed the way   *)
(* the code computes them.  Python values are records                      *)
(*   [k, s, n, keys, xs]                                                   *)
(* k the type ("none", "str", "int", "list", "dict"), s the characters of  *)
(* a str, n the value of an int, xs the items of a list or the values of   *)
(* a dict, keys the keys of a dict (in insertion order).                   *)
(*                                                                         *)
(* sent records every message handed to _ws.send; the address and the     *)
(* uuid of the session, and failures of create_connection and of send,    *)
(* are outside the model.                                                  *)
(***************************************************************************)
EXTENDS Integers, Sequences, FiniteSets, TLC

VARIABLES
    auth_msg,   \* QdbRepl.auth_msg: None or a str
    pc,         \* the foreground process: "preloop", "connected", "started",
                \* "cmdloop", "stopped", or the exception that ended cmdloop
    _ws,        \* QdbRepl._ws: "none", "open"
    _stop,      \* QdbRepl._stop
    lastcmd,    \* Cmd.lastcmd
    line,       \* the line handed to the last onecmd
    stdout,     \* what the last foreground step printed
    ncmds,      \* number of lines read by cmdloop
    sent,       \* frames written to the websocket by the client, in order
    inbox,      \* frames the server has written that recv has not yet returned
    closed,     \* the server has closed the connection
    nrecv,      \* number of frames the server has written so far
    printer,    \* ServerPrinter process: "NotStarted", "Started", "Reading",
                \* "Terminated" (get_events returned), "Raised" (a renderer raised)
    _file,      \* the trace file: "none", "open", "closed"
    out,        \* lines written to the trace file
    nterm,      \* number of times the dispatcher left Reading
    cpc,        \* codec round trip: "idle", "args", "encoded", "decoded"
    cevent,     \* codec round trip: the tag given to fmt_msg
    cpayload,   \* codec round trip: the payload given to fmt_msg
    cframe,     \* codec round trip: the frame fmt_msg returned
    cdecoded    \* codec round trip: what json.loads returned for cframe

vars == <<auth_msg, pc, _ws, _stop, lastcmd, line, stdout, ncmds, sent,
          inbox, closed, nrecv, printer, _file, out, nterm,
          cpc, cevent, cpayload, cframe, cdecoded>>

replVars == <<auth_msg, pc, _ws, _stop, lastcmd, line, stdout, ncmds, sent>>
serverVars == <<inbox, closed, nrecv>>
printerVars == <<printer, _file, out, nterm>>
codecVars == <<cpc, cevent, cpayload, cframe, cdecoded>>

---------------------------------------------------------------------------
(* Bounds of the model. *)

\* lines cmdloop reads in one run
MaxCmds == 2
\* frames the server writes in one run
MaxEvents == 2
\* argument tokens typed after a keyword
MaxArgs == 4

---------------------------------------------------------------------------
\* F(e), with e evaluated once
Bind(e, F(_)) == CHOOSE y \in {F(x) : x \in {e}} : TRUE

---------------------------------------------------------------------------
(* Python values. *)

PyNone == [k |-> "none", s |-> <<>>, n |-> 0, keys |-> <<>>, xs |-> <<>>]
PyStr(s) == [k |-> "str", s |-> s, n |-> 0, keys |-> <<>>, xs |-> <<>>]
PyInt(n) == [k |-> "int", s |-> <<>>, n |-> n, keys |-> <<>>, xs |-> <<>>]
PyList(xs) == [k |-> "list", s |-> <<>>, n |-> 0, keys |-> <<>>, xs |-> xs]
PyDict(keys, xs) == [k |-> "dict", s |-> <<>>, n |-> 0, keys |-> keys, xs |-> xs]

\* bool(v): None, '', 0, [] and {} are false
Truthy(v) ==
    CASE v.k = "none" -> FALSE
      [] v.k = "str" -> v.s # <<>>
      [] v.k = "int" -> v.n # 0
      [] OTHER -> v.xs # <<>>

\* d[key] of a dict: the index of the key, 0 when it is absent
KeyIndex(d, key) ==
    IF d.k = "dict" /\ \E i \in 1..Len(d.keys) : d.keys[i] = key
    THEN CHOOSE i \in 1..Len(d.keys) : d.keys[i] = key
    ELSE 0

HasKey(d, key) == KeyIndex(d, key) # 0

\* d.get(key): None when the key is absent
DictGet(d, key) == IF HasKey(d, key) THEN d.xs[KeyIndex(d, key)] ELSE PyNone

\* d[key] = v
DictPut(d, key, v) ==
    IF HasKey(d, key)
    THEN [d EXCEPT !.xs[KeyIndex(d, key)] = v]
    ELSE [d EXCEPT !.keys = Append(@, key), !.xs = Append(@, v)]

---------------------------------------------------------------------------
(* Strings of the program. *)

S_e == <<"e">>
S_p == <<"p">>
S_start == <<"s", "t", "a", "r", "t">>
S_step == <<"s", "t", "e", "p">>
S_return == <<"r", "e", "t", "u", "r", "n">>
S_next == <<"n", "e", "x", "t">>
S_until == <<"u", "n", "t", "i", "l">>
S_continue == <<"c", "o", "n", "t", "i", "n", "u", "e">>
S_set_watch == <<"s", "e", "t", "_", "w", "a", "t", "c", "h">>
S_clear_watch == <<"c", "l", "e", "a", "r", "_", "w", "a", "t", "c", "h">>
S_set_break == <<"s", "e", "t", "_", "b", "r", "e", "a", "k">>
S_clear_break == <<"c", "l", "e", "a", "r", "_", "b", "r", "e", "a", "k">>
S_list == <<"l", "i", "s", "t">>
S_eval == <<"e", "v", "a", "l">>
S_disable == <<"d", "i", "s", "a", "b", "l", "e">>
S_soft == <<"s", "o", "f", "t">>
S_hard == <<"h", "a", "r", "d">>
S_file == <<"f", "i", "l", "e">>
S_line == <<"l", "i", "n", "e">>
S_func == <<"f", "u", "n", "c">>
S_cond == <<"c", "o", "n", "d">>
S_end == <<"e", "n", "d">>
S_null == <<"n", "u", "l", "l">>
S_EOF == <<"E", "O", "F">>
S_help == <<"h", "e", "l", "p">>

\* the tags the spec lists for commands
CommandTags ==
    {S_start, S_step, S_return, S_next, S_until, S_continue, S_set_watch,
     S_clear_watch, S_set_break, S_clear_break, S_list, S_eval, S_disable}

---------------------------------------------------------------------------
(* json.dumps: the text of a value, with Python's default separators. *)

Digits == <<"0", "1", "2", "3", "4", "5", "6", "7", "8", "9">>

IsDigit(c) == \E i \in 1..10 : Digits[i] = c

DigitVal(c) == (CHOOSE i \in 1..10 : Digits[i] = c) - 1

RECURSIVE IntText(_)
IntText(n) ==
    IF n < 10 THEN <<Digits[n + 1]>>
    ELSE IntText(n \div 10) \o <<Digits[(n % 10) + 1]>>


\* a json.dumps that does not escape: a mutant of EscapeChars
EscapeChars_none(s) == s

\* a str between quotes, with '"' and '\' escaped by a backslash
RECURSIVE EscapeChars(_)
EscapeChars(s) ==
    IF s = <<>> THEN <<>>
    ELSE (IF Head(s) \in {"\"", "\\"} THEN <<"\\", Head(s)>> ELSE <<Head(s)>>)
         \o EscapeChars(Tail(s))

JsonString(s) == <<"\"">> \o EscapeChars(s) \o <<"\"">>

RECURSIVE JsonDumps(_)
RECURSIVE JsonItems(_, _, _)
\* the items of a list (keys = <<>>) or the "key": value pairs of a dict
JsonItems(keys, xs, i) ==
    IF i > Len(xs) THEN <<>>
    ELSE (IF i > 1 THEN <<",", " ">> ELSE <<>>)
         \o (IF keys # <<>> THEN JsonString(keys[i]) \o <<":", " ">> ELSE <<>>)
         \o JsonDumps(xs[i])
         \o JsonItems(keys, xs, i + 1)

JsonDumps(v) ==
    CASE v.k = "none" -> S_null
      [] v.k = "str" -> JsonString(v.s)
      [] v.k = "int" -> IntText(v.n)
      [] v.k = "list" -> <<"[">> \o JsonItems(<<>>, v.xs, 1) \o <<"]">>
      [] v.k = "dict" -> <<"{">> \o JsonItems(v.keys, v.xs, 1) \o <<"}">>

---------------------------------------------------------------------------
(* json.loads: a recursive-descent parser of the text.  Every parser takes *)
(* the text t and a position i and returns [ok, v, i]: whether it parsed,  *)
(* the value, and the position after it.  The JSON read here is null,      *)
(* strings with the escapes \" and \\, non-negative integers, arrays and   *)
(* objects; anything else is a ValueError.                                 *)

ParseFail == [ok |-> FALSE, v |-> PyNone, i |-> 0]
Parsed(v, i) == [ok |-> TRUE, v |-> v, i |-> i]

RECURSIVE SkipWs(_, _)
SkipWs(t, i) == IF i <= Len(t) /\ t[i] = " " THEN SkipWs(t, i + 1) ELSE i

\* the characters of a string literal, from the position after its opening quote
RECURSIVE ScanString(_, _, _)
ScanString(t, i, acc) ==
    IF i > Len(t) THEN ParseFail
    ELSE IF t[i] = "\"" THEN Parsed(PyStr(acc), i + 1)
    ELSE IF t[i] = "\\"
         THEN IF i + 1 <= Len(t) /\ t[i + 1] \in {"\"", "\\"}
              THEN Bind(Append(acc, t[i + 1]), LAMBDA a : ScanString(t, i + 2, a))
              ELSE ParseFail
    ELSE Bind(Append(acc, t[i]), LAMBDA a : ScanString(t, i + 1, a))

RECURSIVE ScanInt(_, _, _)
ScanInt(t, i, acc) ==
    IF i <= Len(t) /\ IsDigit(t[i])
    THEN Bind(acc * 10 + DigitVal(t[i]), LAMBDA a : ScanInt(t, i + 1, a))
    ELSE Parsed(PyInt(acc), i)

IsNullAt(t, i) == i + 3 <= Len(t) /\ SubSeq(t, i, i + 3) = S_null

RECURSIVE ParseValue(_, _)
RECURSIVE ParseArray(_, _, _)
RECURSIVE ParseObject(_, _, _)

\* after "[" or after a ",": the next item, then "," or "]"
ParseArray(t, i, acc) ==
    Bind(ParseValue(t, i), LAMBDA r :
        IF ~r.ok THEN ParseFail
        ELSE Bind(SkipWs(t, r.i), LAMBDA j :
            IF j > Len(t) THEN ParseFail
            ELSE IF t[j] = "," THEN Bind(Append(acc, r.v), LAMBDA a : ParseArray(t, j + 1, a))
            ELSE IF t[j] = "]" THEN Parsed(PyList(Append(acc, r.v)), j + 1)
            ELSE ParseFail))

\* "key": value, from the position of the key's opening quote
ParseMember(t, a) ==
    Bind(ScanString(t, a + 1, <<>>), LAMBDA key :
        IF ~key.ok THEN ParseFail
        ELSE Bind(SkipWs(t, key.i), LAMBDA c :
            IF c > Len(t) \/ t[c] # ":" THEN ParseFail
            ELSE Bind(ParseValue(t, c + 1), LAMBDA val :
                IF ~val.ok THEN ParseFail
                ELSE Parsed(PyDict(<<key.v.s>>, <<val.v>>), val.i))))

\* after "{" or after a ",": "key": value, then "," or "}"
ParseObject(t, i, acc) ==
    Bind(SkipWs(t, i), LAMBDA a :
        IF a > Len(t) \/ t[a] # "\"" THEN ParseFail
        ELSE Bind(ParseMember(t, a), LAMBDA m :
            IF ~m.ok THEN ParseFail
            ELSE Bind(SkipWs(t, m.i), LAMBDA j :
                 Bind(DictPut(acc, m.v.keys[1], m.v.xs[1]), LAMBDA d :
                    IF j > Len(t) THEN ParseFail
                    ELSE IF t[j] = "," THEN ParseObject(t, j + 1, d)
                    ELSE IF t[j] = "}" THEN Parsed(d, j + 1)
                    ELSE ParseFail))))

ParseValue(t, i) ==
    Bind(SkipWs(t, i), LAMBDA j :
        IF j > Len(t) THEN ParseFail
        ELSE IF t[j] = "\"" THEN ScanString(t, j + 1, <<>>)
        ELSE IF IsDigit(t[j]) THEN ScanInt(t, j, 0)
        ELSE IF IsNullAt(t, j) THEN Parsed(PyNone, j + 4)
        ELSE IF t[j] = "["
             THEN Bind(SkipWs(t, j + 1), LAMBDA a :
                      IF a <= Len(t) /\ t[a] = "]" THEN Parsed(PyList(<<>>), a + 1)
                      ELSE ParseArray(t, j + 1, <<>>))
        ELSE IF t[j] = "{"
             THEN Bind(SkipWs(t, j + 1), LAMBDA a :
                      IF a <= Len(t) /\ t[a] = "}" THEN Parsed(PyDict(<<>>, <<>>), a + 1)
                      ELSE ParseObject(t, j + 1, PyDict(<<>>, <<>>)))
        ELSE ParseFail)

\* json.loads(t): [ok, v]; ok is FALSE where json.loads raises ValueError
JsonLoads(t) ==
    Bind(ParseValue(t, 1), LAMBDA r :
        IF r.ok /\ SkipWs(t, r.i) > Len(t)
        THEN [ok |-> TRUE, v |-> r.v]
        ELSE [ok |-> FALSE, v |-> PyNone])

---------------------------------------------------------------------------
(* QdbRepl.fmt_msg. *)


\* a fmt_msg that always writes the payload field: a mutant of fmt_msg
fmt_msg_null(event, payload) ==
    JsonDumps(PyDict(<<S_e, S_p>>, <<PyStr(event), payload>>))

fmt_msg(event, payload) ==
    IF ~Truthy(payload)
    THEN JsonDumps(PyDict(<<S_e>>, <<PyStr(event)>>))
    ELSE JsonDumps(PyDict(<<S_e, S_p>>, <<PyStr(event), payload>>))

---------------------------------------------------------------------------
(* str.strip, str.split and the identifier characters of cmd.Cmd. *)

WhiteSpace == {" ", "\t"}

RECURSIVE LStrip(_)
LStrip(s) == IF s # <<>> /\ Head(s) \in WhiteSpace THEN LStrip(Tail(s)) ELSE s

RECURSIVE RStrip(_)
RStrip(s) ==
    IF s # <<>> /\ s[Len(s)] \in WhiteSpace THEN RStrip(SubSeq(s, 1, Len(s) - 1)) ELSE s

Strip(s) == RStrip(LStrip(s))

\* s.split(): the maximal runs of non-whitespace characters, in order
RECURSIVE SplitFrom(_, _, _, _)
SplitFrom(s, i, cur, acc) ==
    IF i > Len(s) THEN (IF cur = <<>> THEN acc ELSE Append(acc, cur))
    ELSE IF s[i] \in WhiteSpace
         THEN Bind(IF cur = <<>> THEN acc ELSE Append(acc, cur),
                   LAMBDA a : SplitFrom(s, i + 1, <<>>, a))
         ELSE Bind(Append(cur, s[i]), LAMBDA c : SplitFrom(s, i + 1, c, acc))

Split(s) == SplitFrom(s, 1, <<>>, <<>>)

\* Cmd.identchars: string.ascii_letters + string.digits + '_'
IdentChars ==
    {"a", "b", "c", "d", "e", "f", "g", "h", "i", "j", "k", "l", "m", "n", "o",
     "p", "q", "r", "s", "t", "u", "v", "w", "x", "y", "z",
     "A", "B", "C", "D", "E", "F", "G", "H", "I", "J", "K", "L", "M", "N", "O",
     "P", "Q", "R", "S", "T", "U", "V", "W", "X", "Y", "Z",
     "0", "1", "2", "3", "4", "5", "6", "7", "8", "9", "_"}

\* the length of the longest prefix of s made of identifier characters
RECURSIVE IdentLen(_, _)
IdentLen(s, i) == IF i < Len(s) /\ s[i + 1] \in IdentChars THEN IdentLen(s, i + 1) ELSE i

---------------------------------------------------------------------------
(* What a command handler does: the frames it hands to send, in order, the *)
(* lines it prints, whether it sets _stop, and the exception it raises     *)
(* ("none" when it returns).                                               *)

Done(frames, prints) == [frames |-> frames, prints |-> prints, stop |-> FALSE, exc |-> "none"]
Raise(frames, prints, exc) == [frames |-> frames, prints |-> prints, stop |-> FALSE, exc |-> exc]

\* QdbRepl.send_command and QdbRepl.send: the frame written to the socket
send_command(event, payload) == <<fmt_msg(event, payload)>>

missing_argument(cmd) == "*** error: " \o cmd \o ": missing argument(s)"

\* the number of arguments parse_break_arg takes besides self
parse_break_arg_params == 1

\* zip([a, b], args): one pair for each of the first two args.  Each pair
\* is a tuple, so the assignment pair[0] = pair[1] in the loop body raises
\* TypeError on the first pair and assigns nothing.
ZipLen(args) == IF Len(args) < 2 THEN Len(args) ELSE 2

\* QdbRepl.parse_break_arg(arg): [exc, prints, val]
parse_break_arg(arg) ==
    Bind(Split(arg), LAMBDA args :
        LET prints == IF Len(args) = 1
                      THEN <<"*** error: break_arg: Missing line number">>
                      ELSE <<>>
        IN  IF Len(args) < 2
            THEN [exc |-> "IndexError", prints |-> prints, val |-> PyNone]
            ELSE IF ZipLen(SubSeq(args, 3, Len(args))) > 0
            THEN [exc |-> "TypeError", prints |-> prints, val |-> PyNone]
            ELSE [exc |-> "none", prints |-> prints,
                  val |-> PyDict(<<S_file, S_line, S_func, S_cond>>,
                                 <<PyStr(args[1]), PyStr(args[2]), PyNone, PyNone>>)])

\* a call of parse_break_arg with nargs arguments besides self
call_parse_break_arg(nargs, arg) ==
    IF nargs # parse_break_arg_params
    THEN [exc |-> "TypeError", prints |-> <<>>, val |-> PyNone]
    ELSE parse_break_arg(arg)

\* a default that sends the line as the tag of the frame: a mutant of default
default_line_as_tag(l) == Done(send_command(l, PyStr(l)), <<>>)

\* the default of cmd.Cmd, which only reports the line: a mutant of default
default_unknown_syntax(l) == Done(<<>>, <<"*** Unknown syntax">>)

default(l) == Done(send_command(S_eval, PyStr(l)), <<>>)

do_step(arg) == Done(send_command(S_step, PyNone), <<>>)
do_return(arg) == Done(send_command(S_return, PyNone), <<>>)
do_next(arg) == Done(send_command(S_next, PyNone), <<>>)
do_until(arg) == Done(send_command(S_until, PyNone), <<>>)
do_continue(arg) == Done(send_command(S_continue, PyNone), <<>>)

\* the tokens in reverse order: a mutant of StrList
StrList_reversed(tokens) ==
    PyList([i \in 1..Len(tokens) |-> PyStr(tokens[Len(tokens) + 1 - i])])

StrList(tokens) == PyList([i \in 1..Len(tokens) |-> PyStr(tokens[i])])


\* a do_watch without the check of its argument: a mutant of do_watch
do_watch_unchecked(arg) == Done(send_command(S_set_watch, StrList(Split(arg))), <<>>)

do_watch(arg) ==
    IF arg = <<>> THEN Done(<<>>, <<missing_argument("w(atch)")>>)
    ELSE Done(send_command(S_set_watch, StrList(Split(arg))), <<>>)

do_unwatch(arg) ==
    IF arg = <<>> THEN Done(<<>>, <<missing_argument("unw(atch)")>>)
    ELSE Done(send_command(S_clear_watch, StrList(Split(arg))), <<>>)

\* do_break passes arg and temp to parse_break_arg
do_break(arg) ==
    IF arg = <<>> THEN Done(<<>>, <<missing_argument("b(reak)")>>)
    ELSE Bind(call_parse_break_arg(2, arg), LAMBDA break_arg :
             IF break_arg.exc # "none" THEN Raise(<<>>, break_arg.prints, break_arg.exc)
             ELSE IF Truthy(break_arg.val)
             THEN Done(send_command(S_set_break, break_arg.val), break_arg.prints)
             ELSE Done(<<>>, break_arg.prints))

do_clear(arg) ==
    IF arg = <<>> THEN Done(<<>>, <<missing_argument("cl(ear)")>>)
    ELSE Bind(call_parse_break_arg(1, arg), LAMBDA break_arg :
             IF break_arg.exc # "none" THEN Raise(<<>>, break_arg.prints, break_arg.exc)
             ELSE IF Truthy(break_arg.val)
             THEN Done(send_command(S_clear_break, break_arg.val), break_arg.prints)
             ELSE Done(<<>>, break_arg.prints))

do_tbreak(arg) == do_break(arg)

do_list(arg) ==
    IF arg = <<>> THEN Done(<<>>, <<missing_argument("l(ist)")>>)
    ELSE Bind(Split(arg), LAMBDA args :
             IF ZipLen(SubSeq(args, 2, Len(args))) > 0
             THEN Raise(<<>>, <<>>, "TypeError")
             ELSE Done(send_command(S_list,
                                    PyDict(<<S_file, S_start, S_end>>,
                                           <<PyStr(args[1]), PyNone, PyNone>>)),
                       <<>>))


\* a do_quit that falls back to a soft disable: a mutant of do_quit
do_quit_fallback(arg) ==
    LET r == IF arg = S_hard
             THEN Done(send_command(S_disable, PyStr(S_hard)), <<>>)
             ELSE Done(send_command(S_disable, PyStr(S_soft)), <<>>)
    IN  [r EXCEPT !.stop = TRUE]

do_quit(arg) ==
    LET r == IF arg = <<>> \/ arg = S_soft
             THEN Done(send_command(S_disable, PyStr(S_soft)), <<>>)
             ELSE IF arg = S_hard
             THEN Done(send_command(S_disable, PyStr(S_hard)), <<>>)
             ELSE Done(<<>>, <<"*** error: disable: argument must be 'soft' or 'hard'">>)
    IN  [r EXCEPT !.stop = TRUE]

\* Cmd.do_help: prints help text, sends nothing
do_help(arg) == Done(<<>>, <<"help">>)

---------------------------------------------------------------------------
(* cmd.Cmd: parseline and onecmd. *)

\* Cmd.parseline(line): [none, cmd, arg, line]; none stands for cmd = None
parseline(l) ==
    LET s0 == Strip(l)
        bang == s0 # <<>> /\ Head(s0) = "!"
        s1 == IF s0 # <<>> /\ Head(s0) = "?" THEN S_help \o <<" ">> \o Tail(s0) ELSE s0
        i == IdentLen(s1, 0)
    IN  IF s0 = <<>> \/ bang
        THEN [none |-> TRUE, cmd |-> <<>>, arg |-> <<>>, line |-> s0]
        ELSE [none |-> FALSE, cmd |-> SubSeq(s1, 1, i),
              arg |-> Strip(SubSeq(s1, i + 1, Len(s1))), line |-> s1]

\* getattr(self, 'do_' + cmd)(arg), or default(line) when there is no such method
CallDo(cmd, arg, l) ==
    CASE cmd \in {S_step, <<"s">>} -> do_step(arg)
      [] cmd \in {S_return, <<"r">>} -> do_return(arg)
      [] cmd \in {S_next, <<"n">>} -> do_next(arg)
      [] cmd \in {S_until, <<"u", "n", "t">>} -> do_until(arg)
      [] cmd \in {S_continue, <<"c">>} -> do_continue(arg)
      [] cmd \in {<<"w", "a", "t", "c", "h">>, <<"w">>} -> do_watch(arg)
      [] cmd \in {<<"u", "n", "w", "a", "t", "c", "h">>, <<"u", "n", "w">>} -> do_unwatch(arg)
      [] cmd \in {<<"b", "r", "e", "a", "k">>, <<"b">>} -> do_break(arg)
      [] cmd \in {<<"c", "l", "e", "a", "r">>, <<"c", "l">>} -> do_clear(arg)
      [] cmd = <<"t", "b", "r", "e", "a", "k">> -> do_tbreak(arg)
      [] cmd \in {S_list, <<"l">>} -> do_list(arg)
      [] cmd \in {<<"q", "u", "i", "t">>, <<"q">>, S_EOF} -> do_quit(arg)
      [] cmd = S_help -> do_help(arg)
      [] OTHER -> default(l)

\* Cmd.onecmd(line) with Cmd.emptyline: [r, lastcmd], what the handler did
\* and the value of self.lastcmd afterwards
RECURSIVE onecmd(_, _)
onecmd(l, last) ==
    Bind(parseline(l), LAMBDA p :
        IF p.line = <<>>
        THEN IF last # <<>> THEN onecmd(last, last)
             ELSE [r |-> Done(<<>>, <<>>), lastcmd |-> last]
        ELSE IF p.none THEN [r |-> default(p.line), lastcmd |-> last]
        ELSE [r |-> IF p.cmd = <<>> THEN default(p.line) ELSE CallDo(p.cmd, p.arg, p.line),
              lastcmd |-> IF p.line = S_EOF THEN <<>> ELSE p.line])

\* a postcmd that returns the handler's result only: a mutant of postcmd
postcmd_ignores_flag(stop, stopflag) == stop

\* QdbRepl.postcmd
postcmd(stop, stopflag) == stop \/ stopflag

---------------------------------------------------------------------------
(* The lines a user types. *)

T_file == <<"a", ".", "p", "y">>
T_lineno == <<"1", "0">>
T_func == <<"f">>
T_cond == <<"\"", "x", ">", "1", "\"">>
T_more == <<"z">>

\* the i-th token typed after a keyword
ArgToken(i) ==
    CASE i = 1 -> T_file [] i = 2 -> T_lineno [] i = 3 -> T_func [] i = 4 -> T_cond
      [] OTHER -> T_more

RECURSIVE ArgText(_)
ArgText(n) == IF n = 0 THEN <<>> ELSE ArgText(n - 1) \o <<" ">> \o ArgToken(n)

StepKeywords ==
    {S_step, <<"s">>, S_return, <<"r">>, S_next, <<"n">>, S_until, <<"u", "n", "t">>,
     S_continue, <<"c">>}

BreakKeywords == {<<"b", "r", "e", "a", "k">>, <<"b">>, <<"t", "b", "r", "e", "a", "k">>}
ClearKeywords == {<<"c", "l", "e", "a", "r">>, <<"c", "l">>}
ListKeywords == {S_list, <<"l">>}
WatchKeywords == {<<"w", "a", "t", "c", "h">>, <<"w">>}
UnwatchKeywords == {<<"u", "n", "w", "a", "t", "c", "h">>, <<"u", "n", "w">>}
QuitKeywords == {<<"q", "u", "i", "t">>, <<"q">>, S_EOF}

ArgKeywords ==
    BreakKeywords \cup ClearKeywords \cup ListKeywords \cup WatchKeywords \cup UnwatchKeywords

QuitModes == {<<>>, <<" ">> \o S_soft, <<" ">> \o S_hard, <<" ">> \o T_file}

\* lines that name no command, and lines with more white space
OtherLines ==
    {<<>>, <<" ", " ">>, S_help, <<"?">>, <<"!", "l", "s">>,
     <<"x", " ", "+", " ", "1">>, <<" ", "x", " ">>, <<"(", "x", ")">>,
     <<" ", "w", "\t", " ", "x", " ", " ", "y", " ">>,
     <<"q", "u", "i", "t", " ", " ", "s", "o", "f", "t", " ">>,
     <<"c", "l", " ", " ", "a", ".", "p", "y", " ", "\t", "1", "0", " ">>}

Lines ==
    {kw \o ArgText(n) : kw \in StepKeywords, n \in 0..1}
    \cup {kw \o ArgText(n) : kw \in ArgKeywords, n \in 0..MaxArgs}
    \cup {kw \o m : kw \in QuitKeywords, m \in QuitModes}
    \cup OtherLines

---------------------------------------------------------------------------
(* The foreground process: QdbRepl.cmdloop. *)

\* preloop, and the first line of _connect: the defaults, then create_connection
preloop ==
    /\ pc = "preloop"
    /\ auth_msg' = IF ~Truthy(auth_msg) THEN PyStr(<<>>) ELSE auth_msg
    /\ _ws' = "open"
    /\ pc' = "connected"
    /\ UNCHANGED <<_stop, lastcmd, line, stdout, ncmds, sent>>
    /\ UNCHANGED <<serverVars, printerVars, codecVars>>


\* a _connect that starts the printer without sending start: a mutant of
\* connect_send_start
connect_skip_start ==
    /\ pc = "connected"
    /\ pc' = "started"
    /\ UNCHANGED <<auth_msg, _ws, _stop, lastcmd, line, stdout, ncmds, sent>>
    /\ UNCHANGED <<serverVars, printerVars, codecVars>>

\* _connect: self.send_command('start', self.auth_msg)
connect_send_start ==
    /\ pc = "connected"
    /\ sent' = sent \o send_command(S_start, auth_msg)
    /\ pc' = "started"
    /\ UNCHANGED <<auth_msg, _ws, _stop, lastcmd, line, stdout, ncmds>>
    /\ UNCHANGED <<serverVars, printerVars, codecVars>>

\* _connect: the printer process is created and started
connect_start_printer ==
    /\ pc = "started"
    /\ printer' = "Started"
    /\ stdout' = <<"qdb connected: /tmp/qdb/.qdb">>
    /\ pc' = "cmdloop"
    /\ UNCHANGED <<auth_msg, _ws, _stop, lastcmd, line, ncmds, sent>>
    /\ UNCHANGED <<serverVars, _file, out, nterm, codecVars>>


\* a cmdloop that waits for an event per command: a mutant of cmdloop_ready
cmdloop_ready_acked == pc = "cmdloop" /\ ncmds < MaxCmds /\ Len(out) > ncmds + 1

\* cmdloop is ready for a line: the loop runs and the terminal has one
cmdloop_ready == pc = "cmdloop" /\ ncmds < MaxCmds

\* one turn of cmdloop on a line of L: precmd, onecmd, postcmd
cmdloop(L) ==
    /\ cmdloop_ready
    /\ \E l \in L :
       \E o \in {onecmd(l, lastcmd)} :
          LET stopflag == _stop \/ o.r.stop
          IN  /\ line' = l
              /\ lastcmd' = o.lastcmd
              /\ sent' = sent \o o.r.frames
              /\ stdout' = o.r.prints
              /\ _stop' = stopflag
              /\ pc' = IF o.r.exc # "none" THEN o.r.exc
                       ELSE IF postcmd(FALSE, stopflag) THEN "stopped"
                       ELSE "cmdloop"
    /\ ncmds' = ncmds + 1
    /\ UNCHANGED <<auth_msg, _ws>>
    /\ UNCHANGED <<serverVars, printerVars, codecVars>>

---------------------------------------------------------------------------
(* Strings of ServerPrinter. *)

L_Tracing == <<"T", "r", "a", "c", "i", "n", "g", ".", ".", ".">>
L_error == <<"*", "*", "*", " ", "e", "r", "r", "o", "r", ":", " ">>
L_unknown == <<":", " ", "u", "n", "k", "n", "o", "w", "n", " ", "e", "v", "e", "n", "t", " ", "t", "y", "p", "e">>
L_colon_sp == <<":", " ">>
L_gt == <<">", " ">>
L_colon == <<":">>
L_arrow == <<"-", ">", " ">>
L_watchlist == <<"w", "a", "t", "c", "h", "l", "i", "s", "t", ":", " ", "[">>
L_watched == <<" ", " ", ">", " ">>
L_close == <<"]">>
L_returning == <<"-", "-", ">", " ", "r", "e", "t", "u", "r", "n", "i", "n", "g", " ", "w", "i", "t", "h", " ">>
L_None == <<"N", "o", "n", "e">>
S_output == <<"o", "u", "t", "p", "u", "t">>
S_input == <<"i", "n", "p", "u", "t">>
S_code == <<"c", "o", "d", "e">>
S_name == <<"n", "a", "m", "e">>
S_value == <<"v", "a", "l", "u", "e">>
S_type == <<"t", "y", "p", "e">>
S_data == <<"d", "a", "t", "a">>
S_print == <<"p", "r", "i", "n", "t">>
S_stack == <<"s", "t", "a", "c", "k">>
S_watchlist == <<"w", "a", "t", "c", "h", "l", "i", "s", "t">>
S_breakpoints == <<"b", "r", "e", "a", "k", "p", "o", "i", "n", "t", "s">>
S_error == <<"e", "r", "r", "o", "r">>

---------------------------------------------------------------------------
(* str(v), as print and the %s conversion compute it (Python 2: the strs   *)
(* json.loads returns are unicode, and repr shows them as u'...').         *)

RECURSIVE PyText(_)
RECURSIVE PyRepr(_)
RECURSIVE ReprItems(_, _, _)
ReprItems(keys, xs, i) ==
    IF i > Len(xs) THEN <<>>
    ELSE (IF i > 1 THEN <<",", " ">> ELSE <<>>)
         \o (IF keys # <<>> THEN PyRepr(PyStr(keys[i])) \o <<":", " ">> ELSE <<>>)
         \o PyRepr(xs[i])
         \o ReprItems(keys, xs, i + 1)

PyRepr(v) == IF v.k = "str" THEN <<"u", "'">> \o v.s \o <<"'">> ELSE PyText(v)

PyText(v) ==
    CASE v.k = "none" -> L_None
      [] v.k = "str" -> v.s
      [] v.k = "int" -> IntText(v.n)
      [] v.k = "list" -> <<"[">> \o ReprItems(<<>>, v.xs, 1) \o <<"]">>
      [] v.k = "dict" -> <<"{">> \o ReprItems(v.keys, v.xs, 1) \o <<"}">>

\* v[key] for a str key: [exc, v]
Subscript(v, key) ==
    IF v.k # "dict" THEN [exc |-> "TypeError", v |-> PyNone]
    ELSE IF ~HasKey(v, key) THEN [exc |-> "KeyError", v |-> PyNone]
    ELSE [exc |-> "none", v |-> DictGet(v, key)]

\* payload[0] in place of payload[-1]: a mutant of LastItem
LastItem_first(v) ==
    CASE v.k = "list" -> IF v.xs = <<>> THEN [exc |-> "IndexError", v |-> PyNone]
                         ELSE [exc |-> "none", v |-> v.xs[1]]
      [] v.k = "str" -> IF v.s = <<>> THEN [exc |-> "IndexError", v |-> PyNone]
                        ELSE [exc |-> "none", v |-> PyStr(<<v.s[1]>>)]
      [] v.k = "dict" -> [exc |-> "KeyError", v |-> PyNone]
      [] OTHER -> [exc |-> "TypeError", v |-> PyNone]

\* v[-1]: [exc, v]
LastItem(v) ==
    CASE v.k = "list" -> IF v.xs = <<>> THEN [exc |-> "IndexError", v |-> PyNone]
                         ELSE [exc |-> "none", v |-> v.xs[Len(v.xs)]]
      [] v.k = "str" -> IF v.s = <<>> THEN [exc |-> "IndexError", v |-> PyNone]
                        ELSE [exc |-> "none", v |-> PyStr(<<v.s[Len(v.s)]>>)]
      [] v.k = "dict" -> [exc |-> "KeyError", v |-> PyNone]
      [] OTHER -> [exc |-> "TypeError", v |-> PyNone]

\* the items a for loop over v visits: [exc, xs]
IterItems(v) ==
    CASE v.k = "list" -> [exc |-> "none", xs |-> v.xs]
      [] v.k = "str" -> [exc |-> "none", xs |-> [i \in 1..Len(v.s) |-> PyStr(<<v.s[i]>>)]]
      [] v.k = "dict" -> [exc |-> "none", xs |-> [i \in 1..Len(v.keys) |-> PyStr(v.keys[i])]]
      [] OTHER -> [exc |-> "TypeError", xs |-> <<>>]

---------------------------------------------------------------------------
(* The renderers of ServerPrinter: [exc, lines], the lines written to the  *)
(* trace file before the handler returned (exc = "none") or raised.        *)

Wrote(lines) == [exc |-> "none", lines |-> lines]
Raised(exc, lines) == [exc |-> exc, lines |-> lines]

\* a lookup of the renderer without the None default: a mutant of unknown_event
unknown_event_raises(e) == Raised("AttributeError", <<>>)

unknown_event(e) == Wrote(<<L_error \o PyText(e) \o L_unknown>>)

event_print(payload) ==
    LET o == Subscript(payload, S_output)
        i == Subscript(payload, S_input)
    IN  IF o.exc # "none" THEN Raised(o.exc, <<>>)
        ELSE IF ~Truthy(o.v) THEN Wrote(<<>>)
        ELSE IF i.exc # "none" THEN Raised(i.exc, <<>>)
        ELSE IF i.v.k # "str" \/ o.v.k # "str" THEN Raised("TypeError", <<>>)
        ELSE Wrote(<<i.v.s \o L_colon_sp \o o.v.s>>)

event_list(payload) == Wrote(<<PyText(payload)>>)

event_stack(payload) ==
    LET frame == LastItem(payload)
        f == Subscript(frame.v, S_file)
        l == Subscript(frame.v, S_line)
        c == Subscript(frame.v, S_code)
        first == L_gt \o PyText(f.v) \o L_colon \o IntText(l.v.n)
    IN  IF frame.exc # "none" THEN Raised(frame.exc, <<>>)
        ELSE IF f.exc # "none" THEN Raised(f.exc, <<>>)
        ELSE IF l.exc # "none" THEN Raised(l.exc, <<>>)
        ELSE IF l.v.k # "int" THEN Raised("TypeError", <<>>)
        ELSE IF c.exc # "none" THEN Raised(c.exc, <<first>>)
        ELSE IF c.v.k # "str" THEN Raised("TypeError", <<first>>)
        ELSE Wrote(<<first, L_arrow \o c.v.s>>)

RECURSIVE WatchedLines(_, _, _)
WatchedLines(xs, i, acc) ==
    IF i > Len(xs) THEN Wrote(Append(acc, L_close))
    ELSE LET nm == Subscript(xs[i], S_name)
             vl == Subscript(xs[i], S_value)
         IN  IF nm.exc # "none" THEN Raised(nm.exc, acc)
             ELSE IF vl.exc # "none" THEN Raised(vl.exc, acc)
             ELSE WatchedLines(xs, i + 1,
                      Append(acc, L_watched \o PyText(nm.v) \o L_colon_sp \o PyText(vl.v)))

event_watchlist(payload) ==
    LET it == IterItems(payload)
    IN  IF it.exc # "none" THEN Raised(it.exc, <<L_watchlist>>)
        ELSE WatchedLines(it.xs, 1, <<L_watchlist>>)

event_breakpoints(payload) == Wrote(<<>>)

event_error(payload) ==
    LET t == Subscript(payload, S_type)
        d == Subscript(payload, S_data)
    IN  IF t.exc # "none" THEN Raised(t.exc, <<>>)
        ELSE IF d.exc # "none" THEN Raised(d.exc, <<>>)
        ELSE Wrote(<<L_error \o PyText(t.v) \o L_colon_sp \o PyText(d.v)>>)

event_return(payload) == Wrote(<<L_returning \o PyText(payload)>>)

\* the body of the for loop of ServerPrinter.__init__ for one event
dispatch(event) ==
    LET e == Subscript(event, S_e)
        p == DictGet(event, S_p)
    IN  IF e.exc # "none" THEN Raised(e.exc, <<>>)
        ELSE IF e.v.k # "str" THEN Raised("TypeError", <<>>)
        ELSE CASE e.v.s = S_print -> event_print(p)
               [] e.v.s = S_list -> event_list(p)
               [] e.v.s = S_stack -> event_stack(p)
               [] e.v.s = S_watchlist -> event_watchlist(p)
               [] e.v.s = S_breakpoints -> event_breakpoints(p)
               [] e.v.s = S_error -> event_error(p)
               [] e.v.s = S_return -> event_return(p)
               [] OTHER -> unknown_event(e.v)

---------------------------------------------------------------------------
(* The server: it writes event frames to the connection and closes it. *)

Ev(tag, payload) == JsonDumps(PyDict(<<S_e, S_p>>, <<PyStr(tag), payload>>))

Frame1 == PyDict(<<S_file, S_line, S_code>>,
                 <<PyStr(T_file), PyInt(3), PyStr(<<"f", "o", "o", "(", ")">>)>>)
Frame2 == PyDict(<<S_file, S_line, S_code>>,
                 <<PyStr(T_file), PyInt(7), PyStr(<<"b", "a", "r", "(", ")">>)>>)

\* frames that decode, with a tag the printer renders
KnownFrames ==
    {Ev(S_print, PyDict(<<S_input, S_output>>, <<PyStr(<<"x">>), PyStr(<<"1">>)>>)),
     Ev(S_print, PyDict(<<S_input, S_output>>, <<PyStr(<<"x">>), PyStr(<<>>)>>)),
     Ev(S_list, PyStr(<<"1", " ", "x">>)),
     Ev(S_stack, PyList(<<Frame1, Frame2>>)),
     Ev(S_watchlist, PyList(<<PyDict(<<S_name, S_value>>, <<PyStr(<<"x">>), PyStr(<<"1">>)>>)>>)),
     JsonDumps(PyDict(<<S_e>>, <<PyStr(S_breakpoints)>>)),
     Ev(S_error, PyDict(<<S_type, S_data>>, <<PyStr(<<"E">>), PyStr(<<"x">>)>>)),
     Ev(S_return, PyStr(<<"v">>))}

\* frames that decode, with a tag or a payload the printer has no renderer for
OddFrames ==
    {Ev(<<"f", "o", "o">>, PyStr(<<"v">>)),
     JsonDumps(PyDict(<<S_p>>, <<PyStr(<<"v">>)>>)),
     JsonDumps(PyDict(<<S_e>>, <<PyStr(S_print)>>)),
     Ev(S_stack, PyList(<<>>)),
     Ev(S_stack, PyList(<<PyDict(<<S_file, S_line>>, <<PyStr(T_file), PyInt(3)>>)>>))}

\* frames that are not JSON
MalformedFrames == {<<"{", "\"", "e", "\"", ":">>, <<"o", "o", "p", "s">>}

EventFrames == KnownFrames \cup OddFrames \cup MalformedFrames

server_send(F) ==
    /\ _ws = "open"
    /\ ~closed
    /\ nrecv < MaxEvents
    /\ \E f \in F : inbox' = Append(inbox, f)
    /\ nrecv' = nrecv + 1
    /\ UNCHANGED <<closed, replVars, printerVars, codecVars>>

server_close ==
    /\ _ws = "open"
    /\ ~closed
    /\ closed' = TRUE
    /\ UNCHANGED <<inbox, nrecv, replVars, printerVars, codecVars>>

---------------------------------------------------------------------------
(* The printer process: ServerPrinter.__init__ and get_events. *)

\* the file is opened and the first line written
printer_init ==
    /\ printer = "Started"
    /\ _file' = "open"
    /\ out' = Append(out, L_Tracing)
    /\ printer' = "Reading"
    /\ UNCHANGED <<nterm, replVars, serverVars, codecVars>>


\* a get_events that goes on after the exception: a mutant of printer_stop
printer_stop_continue == [printer |-> "Reading", lines |-> <<>>, term |-> 1, file |-> "open"]

\* an end of the loop that leaves the output file open: a mutant of printer_stop
printer_stop_open ==
    [printer |-> "Terminated", lines |-> <<>>, term |-> 1, file |-> "open"]

\* get_events: socket.recv() raised, or json.loads raised; the generator
\* returns, the for loop ends and the process exits.  [printer, lines,
\* term, file]: the state of the process, the lines written, whether the
\* loop was left, the state of the trace file.
printer_stop == [printer |-> "Terminated", lines |-> <<>>, term |-> 1, file |-> "closed"]

\* one event through the loop body; an exception of the renderer ends the process
printer_render(event) ==
    Bind(dispatch(event), LAMBDA r :
        IF r.exc = "none"
        THEN [printer |-> "Reading", lines |-> r.lines, term |-> 0, file |-> "open"]
        ELSE [printer |-> "Raised", lines |-> r.lines, term |-> 0, file |-> "closed"])

\* a get_events that skips a frame json.loads rejects: a mutant of get_events
get_events_skip(frames) ==
    IF frames = <<>> THEN printer_stop
    ELSE Bind(JsonLoads(Head(frames)), LAMBDA d :
             IF ~d.ok
             THEN [printer |-> "Reading", lines |-> <<>>, term |-> 0, file |-> "open"]
             ELSE printer_render(d.v))

\* one turn of the for loop over get_events(), on what recv has to return
get_events(frames) ==
    IF frames = <<>> THEN printer_stop
    ELSE Bind(JsonLoads(Head(frames)), LAMBDA d :
             IF ~d.ok THEN printer_stop ELSE printer_render(d.v))

\* recv returns a frame, or raises because the connection is closed
\* a printer whose recv is cut off once the command loop has stopped: a
\* mutant of printer_ready
printer_ready_until_quit ==
    printer = "Reading" /\ (inbox # <<>> \/ closed) /\ pc # "stopped"

\* socket.recv returns: a frame has arrived or the connection has closed
printer_ready == printer = "Reading" /\ (inbox # <<>> \/ closed)

printer_step ==
    /\ printer_ready
    /\ \E t \in {get_events(inbox)} :
          /\ printer' = t.printer
          /\ out' = out \o t.lines
          /\ nterm' = nterm + t.term
          /\ _file' = t.file
    /\ inbox' = IF inbox = <<>> THEN inbox ELSE Tail(inbox)
    /\ UNCHANGED <<closed, nrecv, replVars, codecVars>>

---------------------------------------------------------------------------
(* The codec alone: fmt_msg, then the json.loads of get_events and the     *)
(* event['e'] and event.get('p') of ServerPrinter.__init__.                *)

CodecPayloads ==
    {PyNone, PyStr(<<>>), PyStr(S_soft), PyStr(T_cond), PyStr(<<"\\", " ", "n">>),
     PyInt(0), PyInt(42), PyList(<<>>), PyList(<<PyStr(<<"x">>), PyStr(<<"y">>)>>),
     PyDict(<<>>, <<>>),
     PyDict(<<S_file, S_start, S_end>>, <<PyStr(T_file), PyNone, PyNone>>),
     PyDict(<<S_file, S_line, S_func, S_cond>>,
            <<PyStr(T_file), PyStr(T_lineno), PyStr(T_func), PyStr(T_cond)>>)}

codec_encode ==
    /\ cpc = "args"
    /\ cframe' = fmt_msg(cevent, cpayload)
    /\ cpc' = "encoded"
    /\ UNCHANGED <<cevent, cpayload, cdecoded, replVars, serverVars, printerVars>>

codec_decode ==
    /\ cpc = "encoded"
    /\ cdecoded' = JsonLoads(cframe)
    /\ cpc' = "decoded"
    /\ UNCHANGED <<cevent, cpayload, cframe, replVars, serverVars, printerVars>>

---------------------------------------------------------------------------
(* Specifications. *)

\* the -a argument: absent, empty, or a key
AuthMsgs == {PyNone, PyStr(<<>>), PyStr(<<"k", "e", "y">>)}

CodecIdle ==
    /\ cpc = "idle"
    /\ cevent = <<>>
    /\ cpayload = PyNone
    /\ cframe = <<>>
    /\ cdecoded = [ok |-> FALSE, v |-> PyNone]

\* QdbRepl.__init__ and the assignments of __main__
Init ==
    /\ auth_msg \in AuthMsgs
    /\ pc = "preloop"
    /\ _ws = "none"
    /\ _stop = FALSE
    /\ lastcmd = <<>>
    /\ line = <<>>
    /\ stdout = <<>>
    /\ ncmds = 0
    /\ sent = <<>>
    /\ inbox = <<>>
    /\ closed = FALSE
    /\ nrecv = 0
    /\ printer = "NotStarted"
    /\ _file = "none"
    /\ out = <<>>
    /\ nterm = 0
    /\ CodecIdle

\* lines and frames of the two processes running together
SomeLines ==
    {S_step, <<"w", " ", "x">>, <<"b">>, <<"c", "l", " ", "a">>, <<"q">>,
     <<"q", " ", "x">>, <<"x">>}

SomeFrames ==
    {Ev(S_return, PyStr(<<"v">>)), Ev(<<"f", "o", "o">>, PyStr(<<"v">>)), <<"o", "o", "p", "s">>}

Next ==
    \/ preloop
    \/ connect_send_start
    \/ connect_start_printer
    \/ cmdloop(SomeLines)
    \/ server_send(SomeFrames)
    \/ server_close
    \/ printer_init
    \/ printer_step

Spec == Init /\ [][Next]_vars

\* the foreground process alone, on every line of Lines
NextRepl ==
    \/ preloop
    \/ connect_send_start
    \/ connect_start_printer
    \/ cmdloop(Lines)

SpecRepl == Init /\ [][NextRepl]_vars

\* the printer process alone, on every frame of EventFrames
NextPrinter ==
    \/ preloop
    \/ connect_send_start
    \/ connect_start_printer
    \/ server_send(EventFrames)
    \/ server_close
    \/ printer_init
    \/ printer_step

SpecPrinter == Init /\ [][NextPrinter]_vars

\* the codec alone, on every tag and every payload of CodecPayloads
InitCodec ==
    /\ auth_msg = PyNone
    /\ pc = "preloop"
    /\ _ws = "none"
    /\ _stop = FALSE
    /\ lastcmd = <<>>
    /\ line = <<>>
    /\ stdout = <<>>
    /\ ncmds = 0
    /\ sent = <<>>
    /\ inbox = <<>>
    /\ closed = FALSE
    /\ nrecv = 0
    /\ printer = "NotStarted"
    /\ _file = "none"
    /\ out = <<>>
    /\ nterm = 0
    /\ cpc = "args"
    /\ cevent \in CommandTags
    /\ cpayload \in CodecPayloads
    /\ cframe = <<>>
    /\ cdecoded = [ok |-> FALSE, v |-> PyNone]

NextCodec == codec_encode \/ codec_decode

SpecCodec == InitCodec /\ [][NextCodec]_vars

---------------------------------------------------------------------------
(* What the claims are stated with. *)

\* this step is a turn of cmdloop; line' is the line it read
CmdStep == ncmds' = ncmds + 1

\* the value json.loads returns for a frame
Decoded(f) == JsonLoads(f).v

\* the text {"e": "<tag>"}
TagOnly(tag) == <<"{", "\"", "e", "\"", ":", " ", "\"">> \o tag \o <<"\"", "}">>

\* the text {"e": "<tag>", "p": "<text>"}, for a text that needs no escape
TagAndText(tag, text) ==
    <<"{", "\"", "e", "\"", ":", " ", "\"">> \o tag
    \o <<"\"", ",", " ", "\"", "p", "\"", ":", " ", "\"">> \o text \o <<"\"", "}">>

\* the frame is an envelope with this tag and this payload
IsEnvelope(f, tag, payload) ==
    /\ JsonLoads(f).ok
    /\ Decoded(f).k = "dict"
    /\ Decoded(f).keys = <<S_e, S_p>>
    /\ DictGet(Decoded(f), S_e) = PyStr(tag)
    /\ DictGet(Decoded(f), S_p) = payload

\* the frame is an envelope with this tag and no payload field
IsBareEnvelope(f, tag) ==
    /\ JsonLoads(f).ok
    /\ Decoded(f).k = "dict"
    /\ Decoded(f).keys = <<S_e>>
    /\ DictGet(Decoded(f), S_e) = PyStr(tag)

\* the step wrote exactly one frame
SentOne == Len(sent') = Len(sent) + 1 /\ SubSeq(sent', 1, Len(sent)) = sent

\* the keyword and the argument tokens of a line
KeywordOf(l) == parseline(l).cmd
TokensOf(l) == Split(parseline(l).arg)

---------------------------------------------------------------------------
(* C1 *)

\* C1 as stated: the first frame written is start with the auth payload,
\* the default one included, before the printer is started and before any
\* line is read.
C1_StartCarriesAuth ==
    /\ (printer # "NotStarted" \/ ncmds > 0) => Len(sent) >= 1
    /\ Len(sent) >= 1 => IsEnvelope(sent[1], S_start, auth_msg)

\* C1 amended: the first frame written to the channel is start, written
\* before the printer process is started and before any line is read; it
\* carries the auth payload when that is not empty, and has no payload
\* field when it is empty (the default).
C1_StartFirst ==
    /\ (printer # "NotStarted" \/ ncmds > 0) => Len(sent) >= 1
    /\ Len(sent) >= 1 =>
          IF auth_msg = PyStr(<<>>)
          THEN IsBareEnvelope(sent[1], S_start)
          ELSE IsEnvelope(sent[1], S_start, auth_msg)

C1_Witness ==
    /\ printer = "Reading"
    /\ ncmds > 0
    /\ Len(sent) >= 2
    /\ auth_msg = PyStr(<<>>)
    /\ sent[1] = TagOnly(S_start)

---------------------------------------------------------------------------
(* C2 *)

\* C2 as stated: for every tag and payload, decoding the frame fmt_msg
\* returns gives the tag back as event['e'] and the payload as
\* event.get('p').
C2_RoundTripAll ==
    cpc = "decoded" =>
        /\ cdecoded.ok
        /\ DictGet(cdecoded.v, S_e) = PyStr(cevent)
        /\ DictGet(cdecoded.v, S_p) = cpayload

\* C2 amended: for every tag and every payload that is not empty, decoding
\* the frame gives the tag and the payload back; for an empty payload
\* ('', 0, [], {} or None) it gives the tag back and no payload (None).
C2_RoundTrip ==
    cpc = "decoded" =>
        /\ cdecoded.ok
        /\ DictGet(cdecoded.v, S_e) = PyStr(cevent)
        /\ DictGet(cdecoded.v, S_p) = IF Truthy(cpayload) THEN cpayload ELSE PyNone
        /\ HasKey(cdecoded.v, S_p) <=> Truthy(cpayload)

C2_Witness ==
    /\ cpc = "decoded"
    /\ cevent = S_set_break
    /\ cpayload = PyDict(<<S_file, S_line, S_func, S_cond>>,
                         <<PyStr(T_file), PyStr(T_lineno), PyStr(T_func), PyStr(T_cond)>>)
    /\ DictGet(DictGet(cdecoded.v, S_p), S_cond) = PyStr(T_cond)

---------------------------------------------------------------------------
(* C3 *)

StepTags == {S_step, S_return, S_next, S_until, S_continue}
PayloadTags ==
    {S_set_watch, S_clear_watch, S_set_break, S_clear_break, S_list, S_eval, S_disable}

\* the tag a step keyword sends
StepTagOf(kw) ==
    CASE kw \in {S_step, <<"s">>} -> S_step
      [] kw \in {S_return, <<"r">>} -> S_return
      [] kw \in {S_next, <<"n">>} -> S_next
      [] kw \in {S_until, <<"u", "n", "t">>} -> S_until
      [] kw \in {S_continue, <<"c">>} -> S_continue

\* the frame has the tag field alone or the tag and a payload that is not
\* null; a step tag comes as exactly {"e": tag}, a tag of a command that
\* is sent with a payload comes with the payload field
WellFormedCommand(f) ==
    Bind(JsonLoads(f), LAMBDA d :
        /\ d.ok
        /\ d.v.keys \in {<<S_e>>, <<S_e, S_p>>}
        /\ HasKey(d.v, S_p) => DictGet(d.v, S_p) # PyNone
        /\ DictGet(d.v, S_e).s \in StepTags => f = TagOnly(DictGet(d.v, S_e).s)
        /\ DictGet(d.v, S_e).s \in PayloadTags => d.v.keys = <<S_e, S_p>>)

\* C3: every frame written has the tag field alone or the tag and the
\* payload field, and its payload is never null; step, return, next, until
\* and continue write exactly {"e": tag} whatever was typed after the
\* keyword; a frame of a command that is sent with a payload has both
\* fields.
C3_NoNullPayload ==
    [][/\ \A i \in (Len(sent) + 1)..Len(sent') : WellFormedCommand(sent'[i])
       /\ (CmdStep /\ KeywordOf(line') \in StepKeywords) =>
             sent' = Append(sent, TagOnly(StepTagOf(KeywordOf(line'))))
      ]_vars

C3_Witness ==
    /\ line = S_until \o ArgText(1)
    /\ sent[Len(sent)] = TagOnly(S_until)
    /\ Len(sent) = 3
    /\ IsEnvelope(sent[2], S_set_watch, PyList(<<PyStr(T_file)>>))

---------------------------------------------------------------------------
(* C4 *)

\* C4: whenever cmdloop is at its prompt a command can be sent, whatever
\* has or has not arrived or been rendered; whenever the printer is
\* Reading and a frame or the end of the stream is there, it can take it,
\* whatever the foreground has sent or is waiting for.
C4_Concurrent ==
    /\ (pc = "cmdloop" /\ ncmds < MaxCmds) => ENABLED cmdloop(SomeLines)
    /\ (printer = "Reading" /\ (inbox # <<>> \/ closed)) => ENABLED printer_step

\* a command was sent though no event has arrived, and with an event
\* waiting unrendered
C4_Witness ==
    /\ ncmds = 2
    /\ Len(sent) = 3
    /\ nrecv = 1
    /\ inbox # <<>>
    /\ printer = "Reading"
    /\ out = <<L_Tracing>>

---------------------------------------------------------------------------
(* C5 *)

\* C5: at the end of the stream the printer goes from Reading to
\* Terminated, it does so at most once, and once Terminated it stays so
\* and writes no further line.
C5_TerminatedOnce ==
    [][/\ (printer = "Reading" /\ inbox = <<>> /\ closed /\ printerVars' # printerVars) =>
             /\ printer' = "Terminated"
             /\ nterm' = nterm + 1
             /\ out' = out
       /\ printer = "Terminated" =>
             /\ printer' = "Terminated"
             /\ out' = out
             /\ nterm' = nterm
       /\ nterm' <= 1
      ]_vars

\* terminated at the end of the stream, after two frames were rendered
C5_Witness ==
    /\ printer = "Terminated"
    /\ closed
    /\ inbox = <<>>
    /\ nrecv = 2
    /\ Len(out) = 3
    /\ nterm = 1

---------------------------------------------------------------------------
(* C6 *)

\* the dict the grammar builds from 2, 3 or 4 tokens
BreakpointSpec(toks) ==
    PyDict(<<S_file, S_line, S_func, S_cond>>,
           <<PyStr(toks[1]), PyStr(toks[2]),
             IF Len(toks) >= 3 THEN PyStr(toks[3]) ELSE PyNone,
             IF Len(toks) >= 4 THEN PyStr(toks[4]) ELSE PyNone>>)

\* C6: break and clear with 2, 3 or 4 tokens send one frame, set_break or
\* clear_break, whose payload is the BreakpointSpec of the tokens.
C6_BreakGrammar ==
    [][(/\ CmdStep
        /\ KeywordOf(line') \in {<<"b", "r", "e", "a", "k">>, <<"c", "l", "e", "a", "r">>}
        /\ Len(TokensOf(line')) \in 2..4) =>
          /\ SentOne
          /\ IsEnvelope(sent'[Len(sent')],
                        IF KeywordOf(line') = <<"b", "r", "e", "a", "k">>
                        THEN S_set_break ELSE S_clear_break,
                        BreakpointSpec(TokensOf(line')))
      ]_vars

---------------------------------------------------------------------------
(* C7 *)

\* the dict the grammar builds from 1, 2 or 3 tokens
ListRange(toks) ==
    PyDict(<<S_file, S_start, S_end>>,
           <<PyStr(toks[1]),
             IF Len(toks) >= 2 THEN PyStr(toks[2]) ELSE PyNone,
             IF Len(toks) >= 3 THEN PyStr(toks[3]) ELSE PyNone>>)

\* C7: list with 1, 2 or 3 tokens sends one list frame whose payload is
\* the ListRange of the tokens.
C7_ListGrammar ==
    [][(/\ CmdStep
        /\ KeywordOf(line') = S_list
        /\ Len(TokensOf(line')) \in 1..3) =>
          /\ SentOne
          /\ IsEnvelope(sent'[Len(sent')], S_list, ListRange(TokensOf(line')))
      ]_vars

---------------------------------------------------------------------------
(* C8 *)

\* the name missing_argument is given by each command
MissingName(kw) ==
    CASE kw \in BreakKeywords -> "b(reak)"
      [] kw \in ClearKeywords -> "cl(ear)"
      [] kw \in WatchKeywords -> "w(atch)"
      [] kw \in UnwatchKeywords -> "unw(atch)"
      [] kw \in ListKeywords -> "l(ist)"

\* C8: break, clear, watch, unwatch and list without an argument print
\* the missing-argument error and leave the frames sent as they were.
C8_MissingArgument ==
    [][(CmdStep /\ KeywordOf(line') \in ArgKeywords /\ parseline(line').arg = <<>>) =>
          /\ sent' = sent
          /\ stdout' = <<"*** error: " \o MissingName(KeywordOf(line'))
                         \o ": missing argument(s)">>
      ]_vars

C8_Witness ==
    /\ line = <<"w", "a", "t", "c", "h">>
    /\ stdout = <<"*** error: w(atch): missing argument(s)">>
    /\ ncmds = 2
    /\ Len(sent) = 2
    /\ pc = "cmdloop"

---------------------------------------------------------------------------
(* C9 *)

\* C9: quit alone and quit soft send the one frame disable "soft", quit
\* hard sends the one frame disable "hard", and quit with anything else
\* sends no frame and prints an error (quit, and its aliases q and EOF).
C9_Quit ==
    [][(CmdStep /\ KeywordOf(line') \in QuitKeywords) =>
          LET arg == parseline(line').arg
          IN  /\ arg \in {<<>>, S_soft} =>
                    sent' = Append(sent, TagAndText(S_disable, S_soft))
              /\ arg = S_hard =>
                    sent' = Append(sent, TagAndText(S_disable, S_hard))
              /\ arg \notin {<<>>, S_soft, S_hard} =>
                    /\ sent' = sent
                    /\ stdout' = <<"*** error: disable: argument must be 'soft' or 'hard'">>
      ]_vars

C9_Witness ==
    /\ line = <<"q", "u", "i", "t">> \o <<" ">> \o T_file
    /\ stdout = <<"*** error: disable: argument must be 'soft' or 'hard'">>
    /\ Len(sent) = 1
    /\ ncmds = 1

---------------------------------------------------------------------------
(* C10 *)

\* the line is one of the user-input errors: a command that needs an
\* argument without one, break or clear with a file and no line number,
\* quit with a mode that is neither soft nor hard
UserInputError(l) ==
    \/ KeywordOf(l) \in ArgKeywords /\ parseline(l).arg = <<>>
    \/ KeywordOf(l) \in BreakKeywords \cup ClearKeywords /\ Len(TokensOf(l)) = 1
    \/ KeywordOf(l) \in QuitKeywords /\ parseline(l).arg \notin {<<>>, S_soft, S_hard}

\* C10: a user-input error is printed, sends nothing, and leaves cmdloop
\* running for the next line.
C10_ErrorsKeepLoop ==
    [][(CmdStep /\ UserInputError(line')) =>
          /\ sent' = sent
          /\ stdout' # <<>>
          /\ pc' = "cmdloop"
      ]_vars

---------------------------------------------------------------------------
(* C11 *)

\* this step is a turn of the printer's loop on the frame Head(inbox)
TookFrame == printer = "Reading" /\ inbox # <<>> /\ inbox' = Tail(inbox)

\* the tags ServerPrinter has an event_ method for
RenderedTags == {S_print, S_list, S_stack, S_watchlist, S_breakpoints, S_error, S_return}

\* the tag of a frame that decodes to an event with a str tag; <<>> otherwise
EventTag(f) ==
    Bind(JsonLoads(f), LAMBDA d :
        IF d.ok /\ d.v.k = "dict" /\ HasKey(d.v, S_e) /\ DictGet(d.v, S_e).k = "str"
        THEN DictGet(d.v, S_e).s
        ELSE <<>>)

\* C11: an event whose tag has no renderer writes the one line
\* "*** error: <tag>: unknown event type" and leaves the printer Reading.
C11_UnknownTag ==
    [][(TookFrame /\ EventTag(Head(inbox)) # <<>> /\ EventTag(Head(inbox)) \notin RenderedTags) =>
          /\ out' = Append(out, <<"*", "*", "*", " ", "e", "r", "r", "o", "r", ":", " ">>
                                \o EventTag(Head(inbox))
                                \o <<":", " ", "u", "n", "k", "n", "o", "w", "n", " ",
                                     "e", "v", "e", "n", "t", " ", "t", "y", "p", "e">>)
          /\ printer' = "Reading"
      ]_vars

\* the unknown tag foo was reported, and the return event after it rendered
C11_Witness ==
    /\ Len(out) = 3
    /\ out[2] = <<"*", "*", "*", " ", "e", "r", "r", "o", "r", ":", " ", "f", "o", "o", ":", " ",
                  "u", "n", "k", "n", "o", "w", "n", " ", "e", "v", "e", "n", "t", " ",
                  "t", "y", "p", "e">>
    /\ out[3] = <<"-", "-", ">", " ", "r", "e", "t", "u", "r", "n", "i", "n", "g", " ",
                  "w", "i", "t", "h", " ", "v">>
    /\ printer = "Reading"

---------------------------------------------------------------------------
(* C12 *)

\* C12: a frame that is not JSON moves the printer to Terminated and
\* writes nothing, and nothing is written once the printer is Terminated,
\* so no frame after it is rendered.
C12_MalformedTerminates ==
    [][/\ (TookFrame /\ ~JsonLoads(Head(inbox)).ok) =>
             /\ printer' = "Terminated"
             /\ out' = out
       /\ printer = "Terminated" => (printer' = "Terminated" /\ out' = out)
      ]_vars

\* terminated by a malformed frame on an open connection; the frame that
\* came after it stays unread
C12_Witness ==
    /\ printer = "Terminated"
    /\ ~closed
    /\ nrecv = 2
    /\ Len(inbox) = 1
    /\ out = <<L_Tracing>>

---------------------------------------------------------------------------
(* C13 *)

---------------------------------------------------------------------------
(* C14 *)

\* the Python list of these strings, in this order
IsStrList(v, tokens) ==
    /\ v.k = "list"
    /\ Len(v.xs) = Len(tokens)
    /\ \A i \in 1..Len(tokens) : v.xs[i] = PyStr(tokens[i])

\* C14: watch and unwatch with at least one token send exactly one frame,
\* set_watch or clear_watch, whose payload is the list of the
\* whitespace-separated tokens of the argument, in order.
C14_WatchTokens ==
    [][(/\ CmdStep
        /\ KeywordOf(line') \in WatchKeywords \cup UnwatchKeywords
        /\ TokensOf(line') # <<>>) =>
          /\ SentOne
          /\ Bind(JsonLoads(sent'[Len(sent')]), LAMBDA d :
                /\ d.ok
                /\ d.v.k = "dict"
                /\ d.v.keys = <<S_e, S_p>>
                /\ DictGet(d.v, S_e) =
                      IF KeywordOf(line') \in WatchKeywords THEN PyStr(S_set_watch)
                      ELSE PyStr(S_clear_watch)
                /\ IsStrList(DictGet(d.v, S_p), TokensOf(line')))
      ]_vars

\* the line " w<TAB> x  y " sent {"e": "set_watch", "p": ["x", "y"]}
C14_Witness ==
    /\ line = <<" ", "w", "\t", " ", "x", " ", " ", "y", " ">>
    /\ sent # <<>>
    /\ sent[Len(sent)] = <<"{", "\"", "e", "\"", ":", " ", "\"", "s", "e", "t", "_", "w", "a", "t",
                           "c", "h", "\"", ",", " ", "\"", "p", "\"", ":", " ", "[", "\"", "x",
                           "\"", ",", " ", "\"", "y", "\"", "]", "}">>

---------------------------------------------------------------------------
(* C15 *)

\* the keywords the loop has a command for: the do_ methods of QdbRepl and
\* the help of cmd.Cmd, which "?" abbreviates
RecognizedKeywords ==
    StepKeywords \cup ArgKeywords \cup QuitKeywords \cup {S_help}

\* this step read a line that is not blank and starts with no command
EvalStep ==
    /\ CmdStep
    /\ Strip(line') # <<>>
    /\ KeywordOf(line') \notin RecognizedKeywords

\* C15, as stated: a line whose leading keyword is no command sends exactly
\* one eval frame whose payload is the raw line, unmodified.
C15_EvalRawLine ==
    [][EvalStep =>
          /\ SentOne
          /\ IsEnvelope(sent'[Len(sent')], S_eval, PyStr(line'))
      ]_vars

\* C15, amended: a line that is not blank and whose leading keyword is no
\* command sends exactly one eval frame whose payload is the line without
\* its leading and trailing whitespace.
C15_EvalStrippedLine ==
    [][EvalStep =>
          /\ SentOne
          /\ IsEnvelope(sent'[Len(sent')], S_eval, PyStr(Strip(line')))
      ]_vars

\* the line " x " sent {"e": "eval", "p": "x"}
C15_Witness ==
    /\ line = <<" ", "x", " ">>
    /\ sent # <<>>
    /\ sent[Len(sent)] = <<"{", "\"", "e", "\"", ":", " ", "\"", "e", "v", "a", "l", "\"", ",", " ",
                           "\"", "p", "\"", ":", " ", "\"", "x", "\"", "}">>

---------------------------------------------------------------------------
(* C16 *)

\* a Frame: a dict with a str file, an int line and a str code
IsFrame(v) ==
    /\ v.k = "dict"
    /\ HasKey(v, S_file) /\ DictGet(v, S_file).k = "str"
    /\ HasKey(v, S_line) /\ DictGet(v, S_line).k = "int"
    /\ HasKey(v, S_code) /\ DictGet(v, S_code).k = "str"

\* the frame decodes to a stack event whose payload is a sequence of Frames
\* that is not empty
IsStackEvent(d) ==
    /\ d.ok
    /\ d.v.k = "dict"
    /\ HasKey(d.v, S_e) /\ DictGet(d.v, S_e) = PyStr(<<"s", "t", "a", "c", "k">>)
    /\ HasKey(d.v, S_p) /\ DictGet(d.v, S_p).k = "list"
    /\ DictGet(d.v, S_p).xs # <<>>
    /\ \A i \in 1..Len(DictGet(d.v, S_p).xs) : IsFrame(DictGet(d.v, S_p).xs[i])

\* C16: a stack event with a sequence of Frames writes exactly the two
\* lines "> <file>:<line>" and "-> <code>" of the last Frame; no other
\* Frame of the sequence writes anything.
C16_StackLastFrame ==
    [][TookFrame =>
          Bind(JsonLoads(Head(inbox)), LAMBDA d :
              IsStackEvent(d) =>
                 LET frames == DictGet(d.v, S_p).xs
                     last == frames[Len(frames)]
                 IN  /\ out' = out \o
                          << <<">", " ">> \o DictGet(last, S_file).s \o <<":">>
                                \o IntText(DictGet(last, S_line).n),
                             <<"-", ">", " ">> \o DictGet(last, S_code).s >>
                     /\ printer' = "Reading")
      ]_vars

\* the stack of a.py:3 foo() and a.py:7 bar() wrote the lines of a.py:7 only
C16_Witness ==
    /\ nrecv = 1
    /\ out = <<L_Tracing,
               <<">", " ", "a", ".", "p", "y", ":", "7">>,
               <<"-", ">", " ", "b", "a", "r", "(", ")">> >>

---------------------------------------------------------------------------
(* C17 *)

\* C17: the printer leaves Reading only at the end of the stream or on a
\* frame that fails to decode; every frame that decodes, whatever its tag
\* and payload, leaves it Reading for the frames after it.
C17_DecodedKeepsReading ==
    [][/\ (TookFrame /\ JsonLoads(Head(inbox)).ok) => printer' = "Reading"
       /\ (printer = "Reading" /\ printer' # "Reading") =>
             \/ inbox = <<>> /\ closed
             \/ inbox # <<>> /\ ~JsonLoads(Head(inbox)).ok
      ]_vars

---------------------------------------------------------------------------
(* C18 *)

\* C18: a quit command stops the command loop and leaves the printer and
\* the connection as they are; with the loop stopped the printer still
\* takes every frame that arrives; and the printer becomes Terminated only
\* at the end of the stream or on a frame that fails to decode.
C18_QuitKeepsPrinter ==
    /\ []((pc = "stopped" /\ printer = "Reading" /\ (inbox # <<>> \/ closed))
            => ENABLED printer_step)
    /\ [][/\ (CmdStep /\ KeywordOf(line') \in QuitKeywords) =>
                /\ pc' = "stopped"
                /\ UNCHANGED <<printerVars, serverVars>>
          /\ (printer # "Terminated" /\ printer' = "Terminated") =>
                \/ inbox = <<>> /\ closed
                \/ inbox # <<>> /\ ~JsonLoads(Head(inbox)).ok
         ]_vars

\* after "q" sent disable and stopped the loop, the printer rendered an
\* event, is Reading, and has another frame to render
C18_Witness ==
    /\ pc = "stopped"
    /\ line = <<"q">>
    /\ sent[Len(sent)] = <<"{", "\"", "e", "\"", ":", " ", "\"", "d", "i", "s", "a", "b", "l", "e",
                           "\"", ",", " ", "\"", "p", "\"", ":", " ", "\"", "s", "o", "f", "t",
                           "\"", "}">>
    /\ printer = "Reading"
    /\ ~closed
    /\ Len(out) = 2
    /\ inbox # <<>>

---------------------------------------------------------------------------
(* C19 *)

\* the thirteen tags of the command vocabulary
TagVocabulary ==
    {<<"s", "t", "a", "r", "t">>, <<"s", "t", "e", "p">>, <<"r", "e", "t", "u", "r", "n">>,
     <<"n", "e", "x", "t">>, <<"u", "n", "t", "i", "l">>,
     <<"c", "o", "n", "t", "i", "n", "u", "e">>,
     <<"s", "e", "t", "_", "w", "a", "t", "c", "h">>,
     <<"c", "l", "e", "a", "r", "_", "w", "a", "t", "c", "h">>,
     <<"s", "e", "t", "_", "b", "r", "e", "a", "k">>,
     <<"c", "l", "e", "a", "r", "_", "b", "r", "e", "a", "k">>,
     <<"l", "i", "s", "t">>, <<"e", "v", "a", "l">>,
     <<"d", "i", "s", "a", "b", "l", "e">>}

\* C19: every frame written to the channel decodes to an envelope whose tag
\* is one of the thirteen tags of the vocabulary, whatever lines were read.
C19_TagVocabulary ==
    \A i \in 1..Len(sent) :
        Bind(JsonLoads(sent[i]), LAMBDA d :
            /\ d.ok
            /\ d.v.k = "dict"
            /\ HasKey(d.v, S_e)
            /\ DictGet(d.v, S_e).k = "str"
            /\ DictGet(d.v, S_e).s \in TagVocabulary)

\* three frames were written, the last one for the line "x + 1", whose text
\* is in the payload
C19_Witness ==
    /\ Len(sent) = 3
    /\ line = <<"x", " ", "+", " ", "1">>
    /\ sent[3] = <<"{", "\"", "e", "\"", ":", " ", "\"", "e", "v", "a", "l", "\"", ",", " ",
                   "\"", "p", "\"", ":", " ", "\"", "x", " ", "+", " ", "1", "\"", "}">>

---------------------------------------------------------------------------
(* C20 *)

\* the frame is an envelope with the tag disable
IsDisable(f) ==
    Bind(JsonLoads(f), LAMBDA d :
        d.ok /\ d.v.k = "dict" /\ HasKey(d.v, S_e)
             /\ DictGet(d.v, S_e) = PyStr(<<"d", "i", "s", "a", "b", "l", "e">>))

\* C20: a quit, q or EOF command sets the stop flag and ends the command
\* loop; the flag is never cleared; once it is set no command is read and
\* no frame is written; and a disable frame is the last frame written.
C20_QuitIsFinal ==
    /\ [](/\ _stop => (pc = "stopped" /\ ~ENABLED cmdloop(Lines))
          /\ \A i \in 1..Len(sent) : IsDisable(sent[i]) => i = Len(sent))
    /\ [][/\ (CmdStep /\ KeywordOf(line') \in QuitKeywords) => (_stop' /\ pc' = "stopped")
          /\ _stop => (_stop' /\ sent' = sent /\ ncmds' = ncmds)
         ]_vars

\* "quit hard" was the second command: it stopped the loop, and its disable
\* frame is the last of three frames
C20_Witness ==
    /\ _stop
    /\ pc = "stopped"
    /\ line = <<"q", "u", "i", "t", " ", "h", "a", "r", "d">>
    /\ Len(sent) = 3
    /\ sent[3] = <<"{", "\"", "e", "\"", ":", " ", "\"", "d", "i", "s", "a", "b", "l", "e",
                   "\"", ",", " ", "\"", "p", "\"", ":", " ", "\"", "h", "a", "r", "d",
                   "\"", "}">>

====
